---- MODULE Spec2Model ----
(***************************************************************************)
(* once_again.reproducible_call: a disk-persisted memoization layer.       *)
(*                                                                         *)
(* The state is the cache directory (one file per qualified name and       *)
(* digest), the clock, and the observation of the last operation.  One     *)
(* action, Call, is one call through the decorator's wrapper; Tick lets    *)
(* time pass.  What was put into the cache directory from outside the      *)
(* library is there before the first call.  A second specification,       *)
(* ConcSpec, runs two calls at once, statement by statement.               *)
(*                                                                         *)
(* Text is modelled as a sequence of tokens (pieces of a Python repr that  *)
(* never split differently), so that two reprs are equal exactly when      *)
(* their token sequences are.                                              *)
(***************************************************************************)
EXTENDS Integers, Sequences, FiniteSets, TLC

\* ------------------------------------------------------------- bounds

\* The clock runs over 0..MaxTime.
MaxTime == 1

\* At most MaxCalls calls go through the wrapper in one behaviour.
MaxCalls == 3

\* ------------------------------------------------------------- values

\* Argument values: the integers 0..3 and four receiver objects, three of
\* class Dataset and one of class OtherDataset (test_reproducible_call.py).
IntValues == {"i0", "i1", "i2", "i3"}

Receivers == {"D1", "D2", "D3", "O1"}

\* Two lists, [1, 2] and [2, 1], and the class object Dataset.
Lists == {"L1", "L2"}

Classes == {"cDataset"}

Values == IntValues \cup Receivers \cup Lists \cup Classes

\* The elements of a list.
ItemsOf(v) == IF v = "L1" THEN <<"i1", "i2">> ELSE <<"i2", "i1">>

\* The integer an integer value stands for; the payload (self.value) of a
\* receiver.
IntOf(v) ==
    CASE v = "i0" -> 0
      [] v = "i1" -> 1
      [] v = "i2" -> 2
      [] v = "i3" -> 3
      [] v = "D1" -> 1
      [] v = "D2" -> 2
      [] v = "D3" -> 3
      [] v = "O1" -> 1

\* type(v).__name__
ClassOf(v) ==
    CASE v \in {"D1", "D2", "D3"} -> "Dataset"
      [] v = "O1" -> "OtherDataset"
      [] v \in Lists -> "list"
      [] v \in Classes -> "type"
      [] OTHER -> "int"

Digit(n) ==
    CASE n = 0 -> "0"
      [] n = 1 -> "1"
      [] n = 2 -> "2"
      [] n = 3 -> "3"

\* sep.join(parts) on token sequences.
RECURSIVE Join(_, _)
Join(parts, sep) ==
    IF Len(parts) = 0 THEN <<>>
    ELSE IF Len(parts) = 1 THEN parts[1]
    ELSE parts[1] \o <<sep>> \o Join(Tail(parts), sep)

\* repr(v): "1" for an integer, "Dataset(1)" for a receiver (the classes'
\* __repr__ in the tests: f"Dataset({self.value})"), "[1, 2]" for a list,
\* "<class 'Dataset'>" for the class object.
ReprValue(v) ==
    CASE v \in IntValues -> <<Digit(IntOf(v))>>
      [] v \in Lists ->
           <<"[">>
           \o Join([i \in 1..Len(ItemsOf(v)) |-> <<Digit(IntOf(ItemsOf(v)[i]))>>], ", ")
           \o <<"]">>
      [] v \in Classes -> <<"<class 'Dataset'>">>
      [] OTHER -> <<ClassOf(v), "(", Digit(IntOf(v)), ")">>

\* Positional arguments are a tuple (the wrapper's *args) or a list (the
\* bound-method branch builds [func.__self__] + list(args)).
TupleOf(items) == [kind |-> "tuple", items |-> items]

ListOf(items) == [kind |-> "list", items |-> items]

\* repr of a tuple or a list: "(1, 2)", "(1,)", "()", "[1, 2]".
ReprArgs(a) ==
    LET inner == Join([i \in 1..Len(a.items) |-> ReprValue(a.items[i])], ", ")
    IN  IF a.kind = "tuple"
        THEN <<"(">> \o inner \o (IF Len(a.items) = 1 THEN <<",">> ELSE <<>>) \o <<")">>
        ELSE <<"[">> \o inner \o <<"]">>

\* Keyword arguments are a dict: a sequence of [k, v] in insertion order
\* (the order of the call site), keys distinct.
KeyRepr(k) == IF k = "a" THEN "'a'" ELSE "'b'"

\* repr(dict): "{'a': 1, 'b': 2}", in insertion order.
ReprKwargs(kw) ==
    <<"{">>
    \o Join([i \in 1..Len(kw) |-> <<KeyRepr(kw[i].k), ": ">> \o ReprValue(kw[i].v)], ", ")
    \o <<"}">>

\* dict equality: the same keys bound to the same values, in any order.
KwSet(kw) == {kw[i] : i \in 1..Len(kw)}

\* ------------------------------------------------------------- hashing

\* .encode("ascii"): the number a token contributes to the digest.
Code(tok) ==
    CASE tok = "(" -> 1
      [] tok = ")" -> 2
      [] tok = "[" -> 3
      [] tok = "]" -> 4
      [] tok = "{" -> 5
      [] tok = "}" -> 6
      [] tok = ", " -> 7
      [] tok = "," -> 8
      [] tok = ": " -> 9
      [] tok = "'a'" -> 10
      [] tok = "'b'" -> 11
      [] tok = "0" -> 12
      [] tok = "1" -> 13
      [] tok = "2" -> 14
      [] tok = "3" -> 20
      [] tok = "Dataset" -> 16
      [] tok = "OtherDataset" -> 17
      [] tok = "<class 'Dataset'>" -> 18

\* The digests: sha1(...).hexdigest()[-16:] keeps 64 bits, a finite set, so
\* different texts can share a digest; here seven digests.
Digests == 0..6

\* sha1 of a text, truncated: a deterministic function of the text alone
\* that spreads texts over the digests (a polynomial hash of the tokens).
RECURSIVE HashFrom(_, _)
HashFrom(h, text) ==
    IF Len(text) = 0 THEN h
    ELSE HashFrom((h * 3 + Code(Head(text))) % Cardinality(Digests), Tail(text))

Sha1Tail(text) == HashFrom(0, text)

\* cache_hash((args, kwargs)): ','.join(map(repr, (args, kwargs))), hashed.
cache_hash(args, kwargs) ==
    Sha1Tail(Join(<<ReprArgs(args), ReprKwargs(kwargs)>>, ","))

\* ------------------------------------------------------------- callables

\* The Python functions the layer is applied to.  "m1.f" and "m2.f" are two
\* different functions named f at the top level of two modules; sumsq is a
\* method, increment a static method and whoami a class method of the
\* classes of the tests; list.index is the method of the built-in list.
Funcs ==
    {"m1.f", "m2.f", "Dataset.sumsq", "OtherDataset.sumsq",
     "Dataset.increment", "OtherDataset.increment", "Dataset.whoami", "list.index"}

\* The built-in callables bound to a receiver: [1, 2].index and [2, 1].index.
BoundBuiltins == {"L1.index", "L2.index"}

\* f.__module__
ModuleOf(fn) == IF fn = "m2.f" THEN "m2" ELSE "m1"

\* f.__name__
ShortName(fn) ==
    CASE fn \in {"m1.f", "m2.f"} -> "f"
      [] fn \in {"Dataset.sumsq", "OtherDataset.sumsq"} -> "sumsq"
      [] fn \in {"Dataset.increment", "OtherDataset.increment"} -> "increment"
      [] fn = "Dataset.whoami" -> "whoami"
      [] OTHER -> "index"

\* f.__qualname__: the enclosing classes and the name, never the module,
\* and for a bound built-in never the receiver.
QualName(fn) ==
    CASE fn \in {"m1.f", "m2.f"} -> "f"
      [] fn \in BoundBuiltins -> "list.index"
      [] OTHER -> fn

RECURSIVE SumKw(_)
SumKw(kw) == IF Len(kw) = 0 THEN 0 ELSE IntOf(Head(kw).v) + SumKw(Tail(kw))

Returned(v) == [raised |-> FALSE, retval |-> <<v>>, exc |-> ""]

Raised(exc) == [raised |-> TRUE, retval |-> <<>>, exc |-> exc]

\* list.index(lst, v): the position of v, ValueError when it is not there.
ListIndex(lst, v) ==
    IF \E i \in 1..Len(ItemsOf(lst)) : ItemsOf(lst)[i] = v
    THEN Returned((CHOOSE i \in 1..Len(ItemsOf(lst)) : ItemsOf(lst)[i] = v) - 1)
    ELSE Raised("ValueError")

\* f(*args, **kwargs): what the function returns, or the exception it
\* raises.  m1.f(x, **kw) is 6 // x + sum(kw.values()) and raises
\* ZeroDivisionError at x = 0; m2.f(x, **kw) is 10 * x + sum(kw.values());
\* sumsq(self) is the square of the receiver's value; increment(x) is
\* x + 1; a bound index has its list in it.  All are pure.
Invoke(fn, args, kwargs) ==
    LET x == IntOf(args.items[1])
    IN  CASE fn = "m1.f" ->
               IF x = 0
               THEN Raised("ZeroDivisionError")
               ELSE Returned((6 \div x) + SumKw(kwargs))
          [] fn = "m2.f" -> Returned(10 * x + SumKw(kwargs))
          [] fn \in {"Dataset.sumsq", "OtherDataset.sumsq"} -> Returned(x * x)
          [] fn \in {"Dataset.increment", "OtherDataset.increment"} -> Returned(x + 1)
          [] fn = "L1.index" -> ListIndex("L1", args.items[1])
          [] fn = "L2.index" -> ListIndex("L2", args.items[1])
          [] fn = "list.index" -> ListIndex(args.items[1], args.items[2])

\* isinstance(func, function_types), isinstance(func, method_types) by the
\* name of type(func): types.BuiltinFunctionType and types.BuiltinMethodType
\* are one and the same type, builtin_function_or_method.
function_types == {"function", "builtin_function_or_method"}

method_types == {"method", "builtin_function_or_method"}

\* A callable handed to the decorator: a function (types.FunctionType: a
\* def, also a method decorated inside its class body, which is called with
\* the receiver as first positional argument), a method bound to a receiver
\* (types.MethodType), or something else.
PlainFunc(fn) == [shape |-> "function", fn |-> fn, self |-> "none", name |-> ShortName(fn)]

BoundMethod(recv, name) == [shape |-> "method", fn |-> "none", self |-> recv, name |-> name]

\* lst.index: a built-in bound to the list lst.
BoundBuiltin(lst) ==
    [shape |-> "builtin_function_or_method",
     fn |-> IF lst = "L1" THEN "L1.index" ELSE "L2.index",
     self |-> lst, name |-> "index"]

\* An object that is callable without being a function or a method: an
\* instance of a class with __call__, a functools.partial; calling it
\* calls fn.
CallableObject(fn) == [shape |-> "object", fn |-> fn, self |-> "none", name |-> ShortName(fn)]

\* hasattr(cls, name), getattr(cls, name) for the name of a function
\* defined in a class
HasAttr(cls, name) == \E fn \in Funcs : QualName(fn) = cls \o "." \o name

\* getattr(func.__self__.__class__, func.__name__)
GetAttr(cls, name) ==
    CHOOSE fn \in Funcs : QualName(fn) = cls \o "." \o name

\* The class an attribute is looked up in: the class itself, or the class
\* of an instance.
LookupClass(owner) == IF owner = "cDataset" THEN "Dataset" ELSE ClassOf(owner)

\* A fault: a static method looked up on an instance is bound to it, as an
\* ordinary method is.
StaticAttr_Binds(owner, name) ==
    IF owner \in Receivers
    THEN [shape |-> "method", fn |-> "none", self |-> owner, name |-> name, owner |-> owner]
    ELSE [shape |-> "function", fn |-> GetAttr(LookupClass(owner), name), self |-> "none",
          name |-> name, owner |-> owner]

\* owner.name for a static method decorated inside its class body
\* (@staticmethod over @reproducible_call): the function of the class,
\* whether owner is the class or an instance of it.  owner is not in the
\* function: it records how the call site reached it.
StaticAttr(owner, name) ==
    [shape |-> "function", fn |-> GetAttr(LookupClass(owner), name), self |-> "none",
     name |-> name, owner |-> owner]

NoKw == <<>>

KwAB == <<[k |-> "a", v |-> "i1"], [k |-> "b", v |-> "i2"]>>

KwBA == <<[k |-> "b", v |-> "i2"], [k |-> "a", v |-> "i1"]>>

Req(func, args, kwargs) == [func |-> func, args |-> args, kwargs |-> kwargs]

\* The calls made through the layer, wrapper(*args, **kwargs) of a
\* decorated callable.  Calls of functions: f of module m1 (with a raising
\* argument, and with the same keyword arguments in both orders) and f of
\* module m2.
FunctionRequests ==
    {Req(PlainFunc("m1.f"), <<x>>, NoKw) : x \in {"i0", "i1"}}
    \cup {Req(PlainFunc("m1.f"), <<"i1">>, kw) : kw \in {KwAB, KwBA}}
    \cup {Req(PlainFunc("m2.f"), <<"i1">>, NoKw)}

\* Calls of methods: sumsq decorated inside the classes and called on a
\* receiver, and the bound method x.sumsq decorated in place.
MethodRequests ==
    {Req(PlainFunc("Dataset.sumsq"), <<"D1">>, NoKw)}
    \cup {Req(PlainFunc("OtherDataset.sumsq"), <<"O1">>, NoKw)}
    \cup {Req(BoundMethod(d, "sumsq"), <<>>, NoKw) : d \in {"D1", "D2", "D3"}}

\* The static method increment reached through an instance, through the
\* class, and through an instance of the other class.
StaticRequests ==
    {Req(StaticAttr(owner, "increment"), <<"i1">>, NoKw) : owner \in {"D1", "cDataset", "O1"}}

\* Calls of the static methods, and of an object that is neither a
\* function nor a method.
ClassRequests ==
    StaticRequests \cup {Req(CallableObject("Dataset.increment"), <<"i1">>, NoKw)}

\* Calls of callables bound to a receiver and decorated in place: the
\* index of two lists, and the class method Dataset.whoami, bound to the
\* class.
BoundRequests ==
    {Req(BoundBuiltin(lst), <<"i1">>, NoKw) : lst \in Lists}
    \cup {Req(BoundMethod("cDataset", "whoami"), <<>>, NoKw)}

\* A run of a program makes the calls of one of six groups: the functions
\* without keyword arguments; f of m1 with and without keyword arguments;
\* the bound method on three receivers; the method through the class and
\* bound; the static methods; the bound callables.
Programs ==
    {{r \in FunctionRequests : r.kwargs = NoKw},
     {r \in FunctionRequests : r.func.fn = "m1.f" /\ r.args = <<"i1">>},
     {r \in MethodRequests : r.func.shape = "method"},
     {r \in MethodRequests : r.func.shape = "function" \/ r.func.self = "D1"},
     ClassRequests,
     BoundRequests}

Requests == UNION Programs

\* invalidation_period: None (<<>>) or a number of seconds (<<n>>).
NoTtl == <<>>

Ttls == {NoTtl, <<0>>, <<1>>}

\* ------------------------------------------------------------- the cache store

\* program: the requests this run of the program makes.
\* root: the cache directory: "absent", a directory ("dir"), or a file of that
\* name ("file").
\* files: what each path of the directory holds.  A path is
\* <<qualified name, digest>>, the file f"{f.__qualname__}.{h}.cache".
\* now: the clock (time.time()).
\* last: what the last operation was and how it ended.
\* memo, live: history of the results returned (see Remember).
\* marks: for each path, when a call last stored there and when a call was
\* last served from it since (see Mark).
\* ncalls: how many calls have been made.
\* procs: the calls in progress, when calls overlap (see ConcSpec).
VARIABLES program, root, files, now, last, memo, live, marks, ncalls, procs

vars == <<program, root, files, now, last, memo, live, marks, ncalls, procs>>

\* A fault: only the positional arguments are hashed, cache_hash((args,)).
CacheFname_ArgsOnly(fn, args, kwargs) == <<QualName(fn), cache_hash(args, NoKw)>>

\* os.path.join(cache_path, f"{f.__qualname__}.{h}.cache")
CacheFname(fn, args, kwargs) == <<QualName(fn), cache_hash(args, kwargs)>>

\* The function and the positional arguments the wrapper passes on: func
\* and args as they are for a function; for a bound method the function
\* found on the receiver's class and [func.__self__] + list(args).
Resolve(req) ==
    IF req.func.shape \in function_types
    THEN [fn |-> req.func.fn, args |-> TupleOf(req.args)]
    ELSE [fn |-> GetAttr(ClassOf(req.func.self), req.func.name),
          args |-> ListOf(<<req.func.self>> \o req.args)]

\* The call gets as far as cache_checking_call: func is of a function
\* type, or of a method type with the attribute func.__name__ on the class
\* of func.__self__.
Reaches(req) ==
    \/ req.func.shape \in function_types
    \/ /\ req.func.shape \in method_types
       /\ HasAttr(ClassOf(req.func.self), req.func.name)

\* No file: the call ended before a file name was made.
NoPath == <<"", 0>>

\* The file each request is looked up in and stored to.
PathTable ==
    [r \in Requests |->
        IF Reaches(r) THEN CacheFname(Resolve(r).fn, Resolve(r).args, r.kwargs) ELSE NoPath]

PathOf(req) == PathTable[req]

\* The files of the cache directory that the requests can name.
Paths == {PathTable[r] : r \in {q \in Requests : Reaches(q)}}

CACHE_VER == "v01"

\* The version tag of an entry left by an older release of the library.
OLD_VER == "v00"

NoArgs == TupleOf(<<>>)

\* No file at a path.
NoFile ==
    [kind |-> "none", version |-> "", args |-> NoArgs, kwargs |-> NoKw,
     retval |-> <<>>, mtime |-> 0, writer |-> "none"]

\* A file whose bytes are no pickle of a 4-tuple (empty, truncated, ...).
CorruptFile(t) ==
    [kind |-> "corrupt", version |-> "", args |-> NoArgs, kwargs |-> NoKw,
     retval |-> <<>>, mtime |-> t, writer |-> "outside"]

\* pickle.dump((version, args, kwargs, retval), cache_f) at time t.  writer
\* is not in the file: it records which function's call wrote it.
Entry(version, args, kwargs, retval, t, writer) ==
    [kind |-> "entry", version |-> version, args |-> args, kwargs |-> kwargs,
     retval |-> retval, mtime |-> t, writer |-> writer]

\* A fault: the period is tested for truth, "if invalidation_period and
\* ...", so that without a period every file counts as timed out.
CacheIsValid_NoneExpires(ttl, t, mtime) == ttl # NoTtl /\ t - mtime <= ttl[1]

\* A fault: "<" for "<=", a file as old as the period counts as timed out.
CacheIsValid_Strict(ttl, t, mtime) == ttl = NoTtl \/ t - mtime < ttl[1]

\* (invalidation_period is None) or
\* (time.time() - os.path.getmtime(cache_fname) <= invalidation_period)
CacheIsValid(ttl, t, mtime) == ttl = NoTtl \/ t - mtime <= ttl[1]

\* A fault: the digest is trusted, the saved arguments are not compared.
StateMatches_VersionOnly(state, args, kwargs) == state.version = CACHE_VER

\* A fault: the saved keyword arguments are not compared.
StateMatches_ArgsOnly(state, args, kwargs) ==
    /\ state.version = CACHE_VER
    /\ ReprArgs(state.args) = ReprArgs(args)

\* version == CACHE_VER and repr(args_saved) == repr(args)
\* and repr(kwargs_saved) == repr(kwargs)
StateMatches(state, args, kwargs) ==
    /\ state.version = CACHE_VER
    /\ ReprArgs(state.args) = ReprArgs(args)
    /\ ReprKwargs(state.kwargs) = ReprKwargs(kwargs)

\* A fault: the file is opened with 'xb', so a file that is there is kept.
StoreCache_IfAbsent(fs, fname, fn, args, kwargs, retval, t) ==
    IF fs[fname].kind # "none"
    THEN fs
    ELSE [fs EXCEPT ![fname] = Entry(CACHE_VER, args, kwargs, retval, t, fn)]

\* The files after "Storing cache": open(cache_fname, 'wb') and pickle.dump.
StoreCache(fs, fname, fn, args, kwargs, retval, t) ==
    [fs EXCEPT ![fname] = Entry(CACHE_VER, args, kwargs, retval, t, fn)]

\* How a call ends: outcome is "hit" (return retval from the file),
\* "computed" (f ran and returned), "raised" (f ran and raised exc),
\* "loaderror" (pickle.load or the unpacking of its result raised exc),
\* "conflict" (the cache path is a file), "unsupported" (func is neither a
\* function nor a method) or "attrerror" (getattr raised).  invoked counts
\* the runs of f.
Result(outcome, retval, exc, invoked, fs, fname) ==
    [outcome |-> outcome, retval |-> retval, exc |-> exc, invoked |-> invoked,
     files |-> fs, fname |-> fname]

\* A fault: the file is opened for writing before f runs, so an exception
\* of f leaves an empty file.
RunAndStore_OpensFirst(fn, args, kwargs, fs, t, fname) ==
    LET r == Invoke(fn, args, kwargs)
    IN  IF r.raised
        THEN Result("raised", <<>>, r.exc, 1, [fs EXCEPT ![fname] = CorruptFile(t)], fname)
        ELSE Result("computed", r.retval, "", 1,
                    [fs EXCEPT ![fname] = Entry(CACHE_VER, args, kwargs, r.retval, t, fn)],
                    fname)

\* retval = f(*args, **kwargs), then "Storing cache" and return retval; an
\* exception of f leaves before the file is opened.
RunAndStore(fn, args, kwargs, fs, t, fname) ==
    LET r == Invoke(fn, args, kwargs)
    IN  IF r.raised
        THEN Result("raised", <<>>, r.exc, 1, fs, fname)
        ELSE Result("computed", r.retval, "", 1,
                    StoreCache(fs, fname, fn, args, kwargs, r.retval, t), fname)

\* A fault: a hit touches the file (os.utime), its modification time
\* becomes the time of the hit.
UseCache_Touches(fn, state, fs, t, fname) ==
    Result("hit", state.retval, "", 0, [fs EXCEPT ![fname].mtime = t], fname)

\* A fault: the stored result is not returned at once but falls through
\* to "Storing cache", which writes the file again.
UseCache_ThenStore(fn, state, fs, t, fname) ==
    Result("hit", state.retval, "", 0,
           [fs EXCEPT ![fname] = Entry(CACHE_VER, state.args, state.kwargs, state.retval, t, fn)],
           fname)

\* return retval: the stored result, the files as they are.
UseCache(fn, state, fs, t, fname) == Result("hit", state.retval, "", 0, fs, fname)

\* cache_checking_call(f, args, kwargs, invalidation_period, cache_path, verbose)
\* on the files fs at time t.
cache_checking_call(fn, args, kwargs, ttl, fs, t) ==
    LET fname == CacheFname(fn, args, kwargs)
        state == fs[fname]
    IN  IF state.kind # "none"
        THEN IF CacheIsValid(ttl, t, state.mtime)
             THEN IF state.kind = "corrupt"
                  THEN Result("loaderror", <<>>, "UnpicklingError", 0, fs, fname)
                  ELSE IF StateMatches(state, args, kwargs)
                       THEN UseCache(fn, state, fs, t, fname)
                       ELSE RunAndStore(fn, args, kwargs, fs, t, fname)
             ELSE RunAndStore(fn, args, kwargs, fs, t, fname)
        ELSE RunAndStore(fn, args, kwargs, fs, t, fname)

\* A fault: no test of the type of func, whatever is callable is called
\* as a function is.
wrapper_AnyCallable(req, ttl, fs, t) ==
    IF req.func.shape \in function_types
    THEN cache_checking_call(req.func.fn, TupleOf(req.args), req.kwargs, ttl, fs, t)
    ELSE IF req.func.shape \in method_types
    THEN IF HasAttr(ClassOf(req.func.self), req.func.name)
         THEN cache_checking_call(Resolve(req).fn, Resolve(req).args, req.kwargs, ttl, fs, t)
         ELSE Result("attrerror", <<>>, "AttributeError", 0, fs, NoPath)
    ELSE cache_checking_call(req.func.fn, TupleOf(req.args), req.kwargs, ttl, fs, t)

\* wrapper(*args, **kwargs) of reproducible_call(cache_path, ttl)(func),
\* after the cache directory is there: the function branch, the method
\* branch (where getattr raises AttributeError when the class of
\* func.__self__ has no attribute of that name), or AssertionError.
wrapper(req, ttl, fs, t) ==
    IF req.func.shape \in function_types
    THEN cache_checking_call(req.func.fn, TupleOf(req.args), req.kwargs, ttl, fs, t)
    ELSE IF req.func.shape \in method_types
    THEN IF HasAttr(ClassOf(req.func.self), req.func.name)
         THEN cache_checking_call(Resolve(req).fn, Resolve(req).args, req.kwargs, ttl, fs, t)
         ELSE Result("attrerror", <<>>, "AttributeError", 0, fs, NoPath)
    ELSE Result("unsupported", <<>>, "AssertionError", 0, fs, NoPath)

\* ------------------------------------------------------------- the operations

Forgotten == [r \in Requests |-> <<>>]

\* No call has stored at a path, none was served from it: times of -1.
NoMark == [stored |-> -1, used |-> -1]

Unmarked == [p \in Paths |-> NoMark]

\* No call is in progress.
NoProcs == <<>>

\* No operation, or one that is not a call.
Idle(op) ==
    [op |-> op, req |-> Req(PlainFunc("m1.f"), <<"i1">>, NoKw), ttl |-> NoTtl,
     outcome |-> "", retval |-> <<>>, exc |-> "", invoked |-> 0,
     fname |-> NoPath, had |-> NoFile, prior |-> <<>>, alive |-> <<>>,
     reordered |-> FALSE, mark |-> NoMark]

\* The observation of a call: its inputs, how it ended (res), the file that
\* was at its path before it (had), and what the history held before it:
\* prior/alive are memo/live of the request, reordered says that live holds
\* a result for a request that differs from this one only in the order of
\* its keyword arguments; mark is the mark of its path.
Observed(req, ttl, res) ==
    [op |-> "call", req |-> req, ttl |-> ttl,
     outcome |-> res.outcome, retval |-> res.retval, exc |-> res.exc,
     invoked |-> res.invoked, fname |-> res.fname,
     had |-> IF res.fname \in Paths THEN files[res.fname] ELSE NoFile,
     prior |-> memo[req], alive |-> live[req],
     reordered |-> \E r \in Requests :
                      /\ r.func = req.func
                      /\ r.args = req.args
                      /\ KwSet(r.kwargs) = KwSet(req.kwargs)
                      /\ live[r] # <<>>,
     mark |-> IF res.fname \in Paths THEN marks[res.fname] ELSE NoMark]

\* History.  memo[r] is the result the last call of r returned, kept while
\* every call is made without ttl.
\* live[r] is the same, and is also dropped when a call of another request
\* stores an entry at r's path.
Remember(m, req, ttl, res, collide) ==
    IF ttl # NoTtl THEN Forgotten
    ELSE [r \in Requests |->
            IF r = req
            THEN IF res.outcome \in {"hit", "computed"} THEN res.retval ELSE m[r]
            ELSE IF collide /\ res.outcome = "computed" /\ PathOf(r) = res.fname
                 THEN <<>>
                 ELSE m[r]]

\* History.  The time of a store ("Storing cache") starts a mark anew, the
\* time of a hit is noted in it.
Mark(m, res, t) ==
    CASE res.outcome = "computed" -> [m EXCEPT ![res.fname] = [stored |-> t, used |-> -1]]
      [] res.outcome = "hit" -> [m EXCEPT ![res.fname].used = t]
      [] OTHER -> m

\* A fault: the cache path is not tested, the call goes on as if the
\* directory were there.
Call_NoDirCheck(req, ttl) ==
    /\ ncalls < MaxCalls
    /\ req \in program
    /\ ncalls' = ncalls + 1
    /\ UNCHANGED <<program, now, procs, root>>
    /\ \E res \in {wrapper(req, ttl, files, now)} :
          /\ files' = res.files
          /\ last' = Observed(req, ttl, res)
          /\ memo' = Remember(memo, req, ttl, res, FALSE)
          /\ live' = Remember(live, req, ttl, res, TRUE)
          /\ marks' = Mark(marks, res, now)

\* One call wrapper(*args, **kwargs) of a callable decorated with
\* reproducible_call(invalidation_period = ttl).  The wrapper first makes
\* sure the cache directory is there: it raises RuntimeError when a file
\* has its name and creates it when nothing has.
Call(req, ttl) ==
    /\ ncalls < MaxCalls
    /\ req \in program
    /\ ncalls' = ncalls + 1
    /\ UNCHANGED <<program, now, procs>>
    /\ IF root = "file"
       THEN /\ last' = Observed(req, ttl,
                         Result("conflict", <<>>, "RuntimeError", 0, files, NoPath))
            /\ UNCHANGED <<root, files, memo, live, marks>>
       ELSE \E res \in {wrapper(req, ttl, files, now)} :
                /\ root' = "dir"
                /\ files' = res.files
                /\ last' = Observed(req, ttl, res)
                /\ memo' = Remember(memo, req, ttl, res, FALSE)
                /\ live' = Remember(live, req, ttl, res, TRUE)
                /\ marks' = Mark(marks, res, now)

\* Time passes.
Tick ==
    /\ now < MaxTime
    /\ now' = now + 1
    /\ last' = Idle("tick")
    /\ UNCHANGED <<program, root, files, memo, live, marks, ncalls, procs>>

\* What an earlier run, or something outside the library, left at the path
\* of a request before time 0: bytes that are no pickle ("corrupt"), or the
\* entry a release with another CACHE_VER stored for a call that returned
\* ("old").
LeftOver(req, kind) ==
    IF kind = "corrupt"
    THEN CorruptFile(0)
    ELSE Entry(OLD_VER, Resolve(req).args, req.kwargs,
               Invoke(Resolve(req).fn, Resolve(req).args, req.kwargs).retval,
               0, "outside")

\* Only a call that returned stored an entry.
LeftOverKinds(req) ==
    IF Invoke(Resolve(req).fn, Resolve(req).args, req.kwargs).raised
    THEN {"corrupt"}
    ELSE {"corrupt", "old"}

\* The cache directories a first call can find: none, a file of that name,
\* or a directory holding one left-over file at the path of a request.
InitialDirs(reqs) ==
    {[root |-> rt, files |-> [p \in Paths |-> NoFile]] : rt \in {"absent", "file"}}
    \cup UNION {{[root |-> "dir",
                  files |-> [p \in Paths |->
                               IF p = PathOf(req) THEN LeftOver(req, kind) ELSE NoFile]] :
                   kind \in LeftOverKinds(req)} : req \in {q \in reqs : Reaches(q)}}

\* Before the first call.
Init ==
    /\ program \in Programs
    /\ \E d \in InitialDirs(program) : root = d.root /\ files = d.files
    /\ now = 0
    /\ last = Idle("init")
    /\ memo = Forgotten
    /\ live = Forgotten
    /\ marks = Unmarked
    /\ ncalls = 0
    /\ procs = NoProcs

Next ==
    \/ \E req \in Requests, ttl \in Ttls : Call(req, ttl)
    \/ Tick

Spec == Init /\ [][Next]_vars

\* ------------------------------------------------------------- overlapping calls

\* Two calls run at the same time (two threads, or two processes on one
\* cache directory).  Nothing in the library locks: every statement of
\* cache_checking_call that touches the file system is a step of its own,
\* and the steps of the two calls interleave in any order.
Procs == {1, 2}

\* The callers call d1.sumsq() and d3.sumsq(), decorated in place: two
\* requests with one file name (the digests of their arguments are the
\* same), with different results.
ConcRequests ==
    {Req(BoundMethod(d, "sumsq"), <<>>, NoKw) : d \in {"D1", "D3"}}

ConcTtls == {NoTtl, <<0>>}

\* A call in progress.  pc is the statement it is at: "exists" (line 98),
\* "valid" (line 100), "load" (lines 103-109), "run" (lines 113, 119, 124),
\* "open" (line 126), "dump" (lines 127-128 and the close of the file),
\* "done".  saw is what it read from the file ("" when it has not read),
\* order the place of its store among the stores (0: none).
Started(req, ttl) ==
    [pc |-> "exists", req |-> req, ttl |-> ttl, saw |-> "", outcome |-> "",
     retval |-> <<>>, exc |-> "", invoked |-> 0, order |-> 0]

Finish(proc, outcome, retval, exc) ==
    [proc EXCEPT !.pc = "done", !.outcome = outcome, !.retval = retval, !.exc = exc]

FileOf(p) == PathOf(procs[p].req)

Still == <<program, root, now, last, memo, live, marks, ncalls>>

\* if os.path.exists(cache_fname):
Exists(p) ==
    /\ procs[p].pc = "exists"
    /\ procs' = [procs EXCEPT ![p].pc =
                    IF files[FileOf(p)].kind # "none" THEN "valid" ELSE "run"]
    /\ UNCHANGED files
    /\ UNCHANGED Still

\* if (invalidation_period is None) or (time.time() - getmtime <= ...):
Valid(p) ==
    /\ procs[p].pc = "valid"
    /\ procs' = [procs EXCEPT ![p].pc =
                    IF CacheIsValid(procs[p].ttl, now, files[FileOf(p)].mtime)
                    THEN "load" ELSE "run"]
    /\ UNCHANGED files
    /\ UNCHANGED Still

\* open(cache_fname, 'rb'), pickle.load, and the comparison of what was
\* loaded: an error of pickle.load ends the call, a matching entry is
\* returned, anything else goes on to run f.
Load(p) ==
    /\ procs[p].pc = "load"
    /\ LET state == files[FileOf(p)]
           seen == [procs[p] EXCEPT !.saw = state.kind]
       IN  procs' = [procs EXCEPT ![p] =
                CASE state.kind = "corrupt" -> Finish(seen, "loaderror", <<>>, "EOFError")
                  [] StateMatches(state, Resolve(procs[p].req).args, procs[p].req.kwargs)
                        -> Finish(seen, "hit", state.retval, "")
                  [] OTHER -> [seen EXCEPT !.pc = "run"]]
    /\ UNCHANGED files
    /\ UNCHANGED Still

\* retval = f(*args, **kwargs)
Run(p) ==
    /\ procs[p].pc = "run"
    /\ LET r == Invoke(Resolve(procs[p].req).fn, Resolve(procs[p].req).args,
                       procs[p].req.kwargs)
           ran == [procs[p] EXCEPT !.invoked = 1]
       IN  procs' = [procs EXCEPT ![p] =
                IF r.raised
                THEN Finish(ran, "raised", <<>>, r.exc)
                ELSE [ran EXCEPT !.pc = "open", !.retval = r.retval]]
    /\ UNCHANGED files
    /\ UNCHANGED Still

\* with open(cache_fname, 'wb') as cache_f: the file is there and empty
\* from here until the dump is flushed.
Open(p) ==
    /\ procs[p].pc = "open"
    /\ files' = [files EXCEPT ![FileOf(p)] =
                    [CorruptFile(now) EXCEPT !.writer = Resolve(procs[p].req).fn]]
    /\ procs' = [procs EXCEPT ![p].pc = "dump"]
    /\ UNCHANGED Still

\* pickle.dump((CACHE_VER, args, kwargs, retval), cache_f), the file is
\* closed, return retval.
Dump(p) ==
    /\ procs[p].pc = "dump"
    /\ files' = StoreCache(files, FileOf(p), Resolve(procs[p].req).fn,
                           Resolve(procs[p].req).args, procs[p].req.kwargs,
                           procs[p].retval, now)
    /\ procs' = [procs EXCEPT ![p] =
                    [Finish(procs[p], "computed", procs[p].retval, "")
                        EXCEPT !.order = 1 + Cardinality({q \in Procs : procs[q].order > 0})]]
    /\ UNCHANGED Still

\* The cache directory is there, empty or with the entry that an earlier
\* call d1.sumsq() stored; both calls have got as far as
\* cache_checking_call.
ConcInit ==
    /\ program = ConcRequests
    /\ root = "dir"
    /\ \E kept \in BOOLEAN :
          files = [p \in Paths |->
                     IF kept /\ p = PathOf(Req(BoundMethod("D1", "sumsq"), <<>>, NoKw))
                     THEN Entry(CACHE_VER, ListOf(<<"D1">>), NoKw, <<1>>, 0, "Dataset.sumsq")
                     ELSE NoFile]
    /\ now = 0
    /\ last = Idle("init")
    /\ memo = Forgotten
    /\ live = Forgotten
    /\ marks = Unmarked
    /\ ncalls = 0
    /\ procs \in [Procs -> {Started(req, ttl) : req \in ConcRequests, ttl \in ConcTtls}]

ConcNext ==
    \/ \E p \in Procs : Exists(p) \/ Valid(p) \/ Load(p) \/ Run(p) \/ Open(p) \/ Dump(p)
    \/ Tick

ConcSpec == ConcInit /\ [][ConcNext]_vars

\* ------------------------------------------------------------- the claims

\* A step is a call.
IsCall == ncalls' = ncalls + 1

\* The function, the final positional arguments and the path of the last
\* call, and what the function does on its arguments.
LastFn == Resolve(last.req).fn

LastArgs == Resolve(last.req).args

LastRun == Invoke(LastFn, LastArgs, last.req.kwargs)

\* The last operation was a call that got past the directory check and the
\* dispatch on the callable's type.
LastCalled ==
    last.op = "call" /\ last.outcome \notin {"conflict", "unsupported", "attrerror"}

\* The files there are.
Present(fs) == {p \in Paths : fs[p].kind # "none"}

\* C1, as claimed: with no ttl configured, once a call of a request has
\* returned normally, every later call of the same request is a hit that
\* returns the same result and does not invoke the callable.
C1_EveryLaterCallHits ==
    (last.op = "call" /\ last.ttl = NoTtl /\ last.prior # <<>>)
        => /\ last.outcome = "hit"
           /\ last.invoked = 0
           /\ last.retval = last.prior

\* C1, amended: with no ttl configured, once a call of a request has
\* returned normally, every later call of the same request is a hit that
\* returns the same result and does not invoke the callable, as long as no
\* call of another request has stored an entry at the same path in between
\* (a request whose arguments have the same digest does).
C1_LaterCallHitsWhileEntryKept ==
    (last.op = "call" /\ last.ttl = NoTtl /\ last.alive # <<>>)
        => /\ last.outcome = "hit"
           /\ last.invoked = 0
           /\ last.retval = last.alive

\* A third call that is a hit on the result of an earlier call of the same
\* request, another call having been made in between.
C1_Witness ==
    /\ last.op = "call"
    /\ last.ttl = NoTtl
    /\ last.alive # <<>>
    /\ last.outcome = "hit"
    /\ ncalls = 3
    /\ \E r \in program : r # last.req /\ live[r] # <<>>

\* C2: a call served from the cache changes nothing in the cache directory:
\* no file is created, and every file, the one read among them, has the
\* content and the modification time it had.
C2_HitLeavesStoreUnchanged ==
    [][(IsCall /\ last'.outcome = "hit") => (files' = files /\ root' = root)]_vars

\* A hit at a time later than the entry's modification time.
C2_Witness ==
    /\ last.op = "call"
    /\ last.outcome = "hit"
    /\ last.had.kind = "entry"
    /\ now > last.had.mtime

\* C3: a call that is not a hit and whose callable ran and returned returns
\* the callable's result, and leaves at the path of its qualified name and
\* digest the entry (CACHE_VER, final positional arguments, keyword
\* arguments, result), whatever was there; one file more when there was
\* none, as many when there was one, every other file as it was.
C3_MissStoresEntry ==
    [][(IsCall /\ last'.outcome # "hit" /\ last'.invoked = 1 /\ last'.exc = "")
        => LET req == last'.req
               fn == Resolve(req).fn
               args == Resolve(req).args
               path == <<QualName(fn), cache_hash(args, req.kwargs)>>
               result == Invoke(fn, args, req.kwargs).retval
           IN  /\ last'.retval = result
               /\ files'[path] = Entry(CACHE_VER, args, req.kwargs, result, now, fn)
               /\ \A p \in Paths \ {path} : files'[p] = files[p]
               /\ Cardinality(Present(files')) =
                    Cardinality(Present(files)) + (IF files[path].kind = "none" THEN 1 ELSE 0)]_vars

\* A call that ran the callable and overwrote an entry of the current
\* version, a file of another path being there too.
C3_Witness ==
    /\ last.op = "call"
    /\ last.outcome = "computed"
    /\ last.had.kind = "entry"
    /\ last.had.version = CACHE_VER
    /\ Cardinality(Present(files)) = 2

\* The receiver of a method call (the first of the final positional
\* arguments) and the arguments after it.
Receiver(req) == Head(Resolve(req).args.items)

Rest(req) == Tail(Resolve(req).args.items)

\* Two calls of the same method with the same remaining arguments on
\* receivers whose reprs differ.
SameMethodOtherReceiver(rx, ry) ==
    /\ Resolve(rx).fn = Resolve(ry).fn
    /\ Rest(rx) = Rest(ry)
    /\ rx.kwargs = ry.kwargs
    /\ ReprValue(Receiver(rx)) # ReprValue(Receiver(ry))

\* The file of a request holds the entry of that request.
HoldsEntryOf(fs, r) ==
    /\ fs[PathOf(r)].kind = "entry"
    /\ fs[PathOf(r)].version = CACHE_VER
    /\ ReprArgs(fs[PathOf(r)].args) = ReprArgs(Resolve(r).args)
    /\ ReprKwargs(fs[PathOf(r)].kwargs) = ReprKwargs(r.kwargs)

LastHadOtherArguments ==
    /\ last.had.kind = "entry"
    /\ \/ ReprArgs(last.had.args) # ReprArgs(LastArgs)
       \/ ReprKwargs(last.had.kwargs) # ReprKwargs(last.req.kwargs)

\* The file at the path of the last call is the entry that call stores.
LastStored ==
    files[last.fname] =
        Entry(CACHE_VER, LastArgs, last.req.kwargs, LastRun.retval, now, LastFn)

\* C5: a hit returns a result that was stored with positional and keyword
\* arguments of the same repr as the requested ones; a call that finds at
\* its path an entry stored for arguments of another repr (the two argument
\* sets have the same digest) runs the callable and, the callable returning,
\* replaces the entry by the requested arguments and the new result.
C5_NoHitOnOtherArguments ==
    (LastCalled /\ last.had.kind = "entry")
        => /\ last.outcome = "hit"
                => /\ ReprArgs(last.had.args) = ReprArgs(LastArgs)
                   /\ ReprKwargs(last.had.kwargs) = ReprKwargs(last.req.kwargs)
                   /\ last.retval = last.had.retval
           /\ LastHadOtherArguments
                => /\ last.invoked = 1
                   /\ ~LastRun.raised
                        => /\ last.outcome = "computed"
                           /\ last.retval = LastRun.retval
                           /\ LastStored

\* A call without ttl that found an entry of the current version stored for
\* other arguments, and replaced it.
C5_Witness ==
    /\ LastCalled
    /\ last.ttl = NoTtl
    /\ last.had.version = CACHE_VER
    /\ LastHadOtherArguments
    /\ last.outcome = "computed"
    /\ LastStored

\* C6: a call with ttl that finds a file older than ttl (now - mtime > ttl)
\* runs the callable and, the callable returning, replaces the entry, whose
\* modification time becomes the later time of the call; a call that finds
\* the entry of its request not older than ttl returns the stored result
\* and does not run the callable.  Only the ttl of the call that reads
\* counts.
C6_TtlOfTheReadingCall ==
    (LastCalled /\ last.ttl # NoTtl /\ last.had.kind # "none")
        => LET age == now - last.had.mtime
           IN  /\ age > last.ttl[1]
                    => /\ last.invoked = 1
                       /\ ~LastRun.raised
                            => /\ last.outcome = "computed"
                               /\ LastStored
                               /\ files[last.fname].mtime > last.had.mtime
               /\ (age <= last.ttl[1] /\ ~LastHadOtherArguments /\ last.had.version = CACHE_VER)
                    => /\ last.outcome = "hit"
                       /\ last.invoked = 0
                       /\ last.retval = last.had.retval
                       /\ files[last.fname] = last.had

\* The second call, with ttl 0, finds the entry that the first call, of the
\* same request and without ttl, stored a second earlier, and replaces it.
C6_Witness ==
    /\ LastCalled
    /\ ncalls = 2
    /\ last.ttl = <<0>>
    /\ last.prior # <<>>
    /\ last.had.kind = "entry"
    /\ last.had.version = CACHE_VER
    /\ ~LastHadOtherArguments
    /\ last.outcome = "computed"
    /\ files[last.fname].mtime > last.had.mtime

\* C7: when the callable raises, the caller gets that exception, and every
\* file of the cache directory is as it was: none created, none removed,
\* none rewritten.
C7_RaiseLeavesStore ==
    [][(IsCall /\ last'.invoked = 1
          /\ Invoke(Resolve(last'.req).fn, Resolve(last'.req).args, last'.req.kwargs).raised)
        => /\ last'.outcome = "raised"
           /\ last'.exc =
                Invoke(Resolve(last'.req).fn, Resolve(last'.req).args, last'.req.kwargs).exc
           /\ last'.retval = <<>>
           /\ files' = files]_vars

\* The callable raised in a call that found a file older than its ttl.
C7_Witness ==
    /\ last.op = "call"
    /\ last.outcome = "raised"
    /\ last.exc = "ZeroDivisionError"
    /\ last.ttl # NoTtl
    /\ last.had.kind # "none"
    /\ now - last.had.mtime > last.ttl[1]
    /\ files[last.fname] = last.had

\* C8, as claimed: a call whose keyword arguments are those of an earlier
\* call of the same callable with the same positional arguments, in any
\* order, is a hit on the entry of that call (no ttl, that entry not
\* replaced since, no unreadable file at the path of the call).
C8_KeywordOrderIrrelevant ==
    (LastCalled /\ last.ttl = NoTtl /\ last.reordered /\ last.had.kind # "corrupt")
        => /\ last.outcome = "hit"
           /\ last.invoked = 0

\* C9, as claimed: a call that finds at its path a file that is no pickle
\* of an entry gets no error from it: the callable runs and, the callable
\* returning, the file becomes the entry of the call.
C9_UnreadableEntryIsAMiss ==
    (LastCalled /\ last.had.kind = "corrupt")
        => /\ last.outcome \in {"computed", "raised"}
           /\ last.invoked = 1
           /\ ~LastRun.raised => LastStored

\* C10, as claimed: two different functions of the same name defined in
\* different scopes have different qualified names and so different file
\* names for every argument set: a call of a function never finds at its
\* path, and so never returns or replaces, an entry that a call of another
\* function stored.
C10_ScopesSeparated ==
    (LastCalled /\ last.had.writer \in Funcs) => last.had.writer = LastFn

\* ------------------------------------------------------------- static methods

\* Two calls of the same static method with the same arguments, reached
\* through different owners (an instance, the class).
StaticTwin(r, q) ==
    /\ r \in StaticRequests
    /\ q \in StaticRequests
    /\ r.func.owner # q.func.owner
    /\ LookupClass(r.func.owner) = LookupClass(q.func.owner)
    /\ r.args = q.args
    /\ r.kwargs = q.kwargs

\* The same-named static method of another class, same arguments.
StaticOfOtherClass(r, q) ==
    /\ r \in StaticRequests
    /\ q \in StaticRequests
    /\ r.func.name = q.func.name
    /\ LookupClass(r.func.owner) # LookupClass(q.func.owner)
    /\ r.args = q.args
    /\ r.kwargs = q.kwargs

\* C11: a call of a static method (no ttl) made after a call of the same
\* static method with the same arguments through another owner (the class
\* for an instance, an instance for the class), whose entry is still there,
\* is a hit on the file of that call: same path, stored result, the callable
\* not run, the file as it was.  A call of the same-named static method of
\* another class has another path and never finds the entry of this one.
C11_StaticMethodEquivalence ==
    (LastCalled /\ last.req \in StaticRequests /\ last.ttl = NoTtl)
        => \A q \in StaticRequests :
              /\ (StaticTwin(q, last.req) /\ live[q] # <<>>)
                    => /\ last.outcome = "hit"
                       /\ last.invoked = 0
                       /\ last.fname = PathOf(q)
                       /\ last.retval = live[q]
                       /\ files[last.fname] = last.had
              /\ StaticOfOtherClass(q, last.req)
                    => /\ last.fname # PathOf(q)
                       /\ last.had.writer # Resolve(q).fn

\* Dataset.increment(1), called through the class for the first time, is a
\* hit on the file that d.increment(1) made, the entry of
\* OtherDataset.increment(1) being in a file of its own.
C11_Witness ==
    /\ LastCalled
    /\ last.ttl = NoTtl
    /\ last.req \in StaticRequests
    /\ last.req.func.owner = "cDataset"
    /\ last.prior = <<>>
    /\ last.outcome = "hit"
    /\ last.had.writer = "Dataset.increment"
    /\ \E q \in StaticRequests :
          StaticTwin(q, last.req) /\ q.func.owner = "D1" /\ live[q] # <<>>
    /\ \E o \in StaticRequests :
          /\ StaticOfOtherClass(o, last.req)
          /\ files[PathOf(o)].kind = "entry"
          /\ files[PathOf(o)].writer = "OtherDataset.increment"

\* ------------------------------------------------------------- overlapping calls

\* C12, as claimed: a call that reads the file of its cache key while
\* another call with the same cache key stores there never reads a file
\* without content or with part of it: what it loads is a complete entry
\* (the one that was there, or the new one).
C12_ReaderSeesCompleteEntry ==
    \A p \in Procs : procs[p].saw # "corrupt"

\* The call that stored last.
StoredLast(p) ==
    /\ procs[p].order > 0
    /\ \A q \in Procs : procs[q].order <= procs[p].order

\* Once every call has ended, the file is the complete entry of the call
\* that stored last.
LastWriterWins ==
    (\A p \in Procs : procs[p].pc = "done")
        => \A p \in Procs :
              StoredLast(p)
                  => files[FileOf(p)] =
                        [Entry(CACHE_VER, Resolve(procs[p].req).args, procs[p].req.kwargs,
                               procs[p].retval, 0, Resolve(procs[p].req).fn)
                            EXCEPT !.mtime = files[FileOf(p)].mtime]

\* C13, as claimed: of two calls with the same cache key that overlap,
\* each one that finds no usable entry (it is not served from the file)
\* runs the callable itself and returns its own result; and once both have
\* ended the file is the complete entry of the call that stored last.
C13_EachComputesLastWriterWins ==
    /\ \A p \in Procs :
          (procs[p].pc = "done" /\ procs[p].outcome # "hit")
              => /\ procs[p].invoked = 1
                 /\ procs[p].outcome = "computed"
                 /\ procs[p].retval =
                      Invoke(Resolve(procs[p].req).fn, Resolve(procs[p].req).args,
                             procs[p].req.kwargs).retval
    /\ LastWriterWins

\* ------------------------------------------------------------- errors of use

\* The callable of a request is of none of the types the wrapper knows.
Unsupported(req) == req.func.shape \notin (function_types \cup method_types)

\* C14: a call whose callable is neither a function nor a bound method
\* ends with an error (AssertionError; RuntimeError when a file has the
\* name of the cache directory, which is tested first), the callable is
\* not run and every file of the cache directory is as it was.
C14_UnsupportedCallableRejected ==
    [][(IsCall /\ Unsupported(last'.req))
        => /\ last'.outcome = (IF root = "file" THEN "conflict" ELSE "unsupported")
           /\ last'.exc = (IF root = "file" THEN "RuntimeError" ELSE "AssertionError")
           /\ last'.retval = <<>>
           /\ last'.invoked = 0
           /\ files' = files]_vars

\* A callable object wrapping Dataset.increment is rejected although the
\* entry of Dataset.increment for the same arguments is in the directory.
C14_Witness ==
    /\ last.op = "call"
    /\ Unsupported(last.req)
    /\ last.outcome = "unsupported"
    /\ last.exc = "AssertionError"
    /\ root = "dir"
    /\ \E q \in StaticRequests :
          /\ q.func.fn = last.req.func.fn
          /\ q.args = last.req.args
          /\ files[PathOf(q)].kind = "entry"
          /\ files[PathOf(q)].version = CACHE_VER

\* C15: while a file has the name of the cache directory every call ends
\* with RuntimeError, the callable not run, no file read or written, the
\* path still a file; a call that finds nothing at the path of the cache
\* directory creates the directory and goes on as a call on an empty
\* directory does.
C15_CacheDirectoryConflict ==
    [][IsCall
        => /\ root = "file"
                => /\ last'.outcome = "conflict"
                   /\ last'.exc = "RuntimeError"
                   /\ last'.retval = <<>>
                   /\ last'.invoked = 0
                   /\ last'.fname = NoPath
                   /\ files' = files
                   /\ root' = "file"
           /\ root = "absent"
                => /\ root' = "dir"
                   /\ last'.outcome # "conflict"
                   /\ last'.outcome = wrapper(last'.req, last'.ttl, files, now).outcome
                   /\ last'.retval = wrapper(last'.req, last'.ttl, files, now).retval
                   /\ files' = wrapper(last'.req, last'.ttl, files, now).files
                   /\ Reaches(last'.req) => last'.invoked = 1]_vars

\* The third call in a row that fails on the file at the cache path, no
\* file having been made.
C15_Witness ==
    /\ last.op = "call"
    /\ last.outcome = "conflict"
    /\ last.exc = "RuntimeError"
    /\ root = "file"
    /\ ncalls >= 3
    /\ Present(files) = {}

\* ------------------------------------------------------------- the fast path

\* The conditions of the fast path on the file the last call found: it
\* exists; no ttl, or its age is at most ttl (a ttl of 0 is a ttl); the
\* stored version is the current one; the stored arguments have the reprs
\* of the requested ones.
FastPathUsable ==
    /\ last.had.kind # "none"
    /\ last.ttl = NoTtl \/ now - last.had.mtime <= last.ttl[1]
    /\ last.had.version = CACHE_VER
    /\ ReprArgs(last.had.args) = ReprArgs(LastArgs)
    /\ ReprKwargs(last.had.kwargs) = ReprKwargs(last.req.kwargs)

\* The last call returned the stored result without running the callable.
FastPathTaken ==
    /\ last.outcome = "hit"
    /\ last.invoked = 0
    /\ last.retval = last.had.retval

\* The last call ran the callable once and ended as the callable did.
SlowPathTaken ==
    /\ last.invoked = 1
    /\ last.outcome = (IF LastRun.raised THEN "raised" ELSE "computed")
    /\ last.retval = LastRun.retval
    /\ last.exc = LastRun.exc

\* C16, as claimed: a call returns the stored result without running the
\* callable exactly when the four conditions hold; in every other case
\* (no file, too old, another version, other arguments, anything else in
\* the file) it runs the callable exactly once and gets no error from the
\* cache.
C16_FastPathExact ==
    LastCalled
        => /\ FastPathTaken <=> FastPathUsable
           /\ ~FastPathUsable => SlowPathTaken

\* ------------------------------------------------------------- bound callables

\* The callable of a request is bound to a receiver (func.__self__): an
\* instance method, a class method bound to its class, a built-in bound to
\* its object.
IsBound(req) == req.func.self # "none"

\* C17, as claimed: every call of a callable bound to a receiver takes the
\* bound-method path: the function is found on the class of the receiver
\* (no error of the lookup), and the receiver is the first of the final
\* positional arguments, so that the entry the call stores or is served
\* from holds [receiver] + args.
C17_BoundCallableResolution ==
    (last.op = "call" /\ last.outcome # "conflict" /\ IsBound(last.req))
        => /\ last.outcome \in {"hit", "computed", "raised"}
           /\ last.outcome \in {"hit", "computed"}
                => files[last.fname].args =
                      ListOf(<<last.req.func.self>> \o last.req.args)

\* A bound-method call x.m(a...) and the call C.m(x, a...) of the function
\* of its class: the same function and the same values as final
\* arguments, one of the two bound.
SameFinalArguments(r, q) ==
    /\ Reaches(r)
    /\ Reaches(q)
    /\ IsBound(r) # IsBound(q)
    /\ Resolve(r).fn = Resolve(q).fn
    /\ Resolve(r).args.items = Resolve(q).args.items
    /\ r.kwargs = q.kwargs

\* C18, as claimed: x.m(a...) and C.m(x, a...) have one cache key and one
\* entry: the call of one of them (no ttl, no unreadable file at its path)
\* made while the entry of the other is there is a hit in the file of the
\* other.
C18_KeyOfFinalArgumentSet ==
    (LastCalled /\ last.ttl = NoTtl /\ last.had.kind # "corrupt")
        => \A q \in Requests :
              (SameFinalArguments(q, last.req) /\ live[q] # <<>>)
                  => /\ last.outcome = "hit"
                     /\ last.invoked = 0
                     /\ last.fname = PathOf(q)

\* ------------------------------------------------------------- the store

\* The files that calls of this run have stored.
StoredByCalls == {p \in Paths : files[p].kind # "none" /\ files[p].writer # "outside"}

\* C19: with calls one after the other, every file of the cache directory
\* that the calls have stored, named by a qualified name and a digest,
\* holds an entry of the current version whose stored positional and
\* keyword arguments have that digest, and whose result is what the
\* callable of that qualified name that stored it returns for the stored
\* arguments.  (With nothing written from outside these are all the
\* files.)
C19_StoreConsistent ==
    \A p \in StoredByCalls :
        /\ files[p].kind = "entry"
        /\ files[p].version = CACHE_VER
        /\ cache_hash(files[p].args, files[p].kwargs) = p[2]
        /\ QualName(files[p].writer) = p[1]
        /\ ~Invoke(files[p].writer, files[p].args, files[p].kwargs).raised
        /\ files[p].retval = Invoke(files[p].writer, files[p].args, files[p].kwargs).retval

\* Three calls on a directory that was empty: two files, one of them stored
\* twice, for two argument sets with the same digest.
C19_Witness ==
    /\ ncalls = 3
    /\ \A p \in Paths : files[p].writer # "outside"
    /\ Cardinality(StoredByCalls) = 2
    /\ LastCalled
    /\ last.outcome = "computed"
    /\ last.had.kind = "entry"
    /\ last.had.writer # "outside"
    /\ ReprArgs(last.had.args) # ReprArgs(LastArgs)

\* ------------------------------------------------------------- expiration

\* C20: the age of an entry runs from its last store, whatever calls were
\* served from it since: a call with ttl made later than ttl after the
\* last store at its path runs the callable and, the callable returning,
\* stores the entry anew at the time of the call.
C20_NoSlidingExpiration ==
    (/\ LastCalled
     /\ last.ttl # NoTtl
     /\ last.mark.stored >= 0
     /\ now > last.mark.stored + last.ttl[1])
        => /\ last.invoked = 1
           /\ ~LastRun.raised
                => /\ last.outcome = "computed"
                   /\ last.retval = LastRun.retval
                   /\ LastStored
                   /\ files[last.fname].mtime = now

\* A call with ttl, made more than ttl after the store of its entry and no
\* more than ttl after a hit on it, ran the callable and stored anew.
C20_Witness ==
    /\ LastCalled
    /\ last.ttl # NoTtl
    /\ last.mark.stored >= 0
    /\ last.mark.used > last.mark.stored
    /\ now > last.mark.stored + last.ttl[1]
    /\ now <= last.mark.used + last.ttl[1]
    /\ last.had.version = CACHE_VER
    /\ ~LastHadOtherArguments
    /\ last.outcome = "computed"
    /\ LastStored

====
